---- MODULE Spec2Model ----
(***************************************************************************)
(* Model of the chooksie handler registry (loaders for commands, events    *)
(* and scripts) and of the start script's command module.                  *)
(*                                                                         *)
(*   src/unnamed/part_001                        the loaders               *)
(*   src/packages/chookscord/src/scripts/start/modules/commands.ts         *)
(***************************************************************************)
EXTENDS Integers, Sequences, FiniteSets, TLC

\* ------------------------------------------------------------------ bounds

\* loadEvent and unloadEvent calls in one behaviour.
MaxOps == 3

\* Invocations of compiled handlers in one behaviour.
MaxCalls == 2

\* ------------------------------------------------------------------ inputs

\* Event names of the event source (keyof ClientEvents).
EventNames == {"ready", "message"}

\* Keys the callers pass to loadEvent / unloadEvent. The signature takes the key
\* and the event separately, so a key may or may not equal the event's name.
EventKeys == EventNames \cup {"events/ready.js"}

\* Event definitions (Event<keyof ClientEvents>): name, the once flag and whether
\* the module gives a setup function.
Events == [name : EventNames, once : BOOLEAN, setup : BOOLEAN]

\* ------------------------------------------------------------------ state

VARIABLES
    eventStore,   \* Stores.event: key -> [name, execute]
    listeners,    \* the client's listener table: name -> sequence of [fn, once]
    trace,        \* the event operations performed so far, each with what it did
    commandStore, \* Stores.command: key -> [execute, logger]
    loads,        \* the command loads performed so far, each with what it did
    invs,         \* the invocations of compiled handlers, in call order
    setupCount,   \* the calls of setup functions so far (the value setup returns)
    derived,      \* key derivations: the paths keyed so far, each with its key
    cleanupStore, \* Stores.cleanup: relative path -> cleanup function
    scripts,      \* the script operations performed so far, each with what it did
    batch,        \* start script: the files loadDir yields, in order
    initPc,       \* start script: where init is ("idle", "loop", "done", "returned")
    nextFile,     \* start script: the index of the file the loop of init is at
    tasks,        \* start script: the loadCommand call of each file
    startStore,   \* start script: init's CommandStore, command name -> command
    stored,       \* start script: the store.set calls so far, in order
    dispatches    \* start script: the calls of the interactionCreate listener

eventVars == <<eventStore, listeners, trace>>
cmdVars == <<commandStore, loads>>
invVars == <<invs, setupCount>>
keyVars == <<derived>>
scriptVars == <<cleanupStore, scripts>>
startVars == <<batch, initPc, nextFile, tasks, startStore, stored, dispatches>>
vars == <<eventStore, listeners, trace, commandStore, loads, invs, setupCount, derived,
          cleanupStore, scripts, batch, initPc, nextFile, tasks, startStore, stored,
          dispatches>>

\* ------------------------------------------------------------------ closures

\* The execute closure a loader builds: the loader it comes from, the module
\* (file) whose raw handler and setup it captured, and whether the module gives
\* a setup function (the default () => ({}) is used otherwise). id tells the
\* closures of different loadEvent calls apart; it is 0 for commands.
Closure(loader, file, setup) ==
    [loader |-> loader, file |-> file, setup |-> setup, id |-> 0]

EventClosure(event, id) ==
    [loader |-> "loadEvent", file |-> event.name, setup |-> event.setup, id |-> id]

\* ------------------------------------------------------------------ Map

StoreHas(store, key) == key \in DOMAIN store

\* A set that keeps the entry already stored under the key.
StoreSetKeepsFirst(store, key, value) ==
    [k \in (DOMAIN store) \cup {key} |-> IF k \in DOMAIN store THEN store[k] ELSE value]

\* Map.set: insert, or replace the entry under the key.
StoreSet(store, key, value) ==
    [k \in (DOMAIN store) \cup {key} |-> IF k = key THEN value ELSE store[k]]

EmptyStore == [k \in {} |-> 0]

\* ------------------------------------------------------------------ client

\* client.on(name, fn) / client.once(name, fn): append the listener.
On(table, name, fn, once) ==
    [table EXCEPT ![name] = Append(@, [fn |-> fn, once |-> once])]

\* client.off(name, fn): remove fn from name's listeners; nothing when absent.
Off(table, name, fn) ==
    [table EXCEPT ![name] = SelectSeq(@, LAMBDA l : l.fn # fn)]

\* The names the listener table is indexed by (off is called with a key too).
ListenerNames == EventKeys \cup EventNames \cup {"interactionCreate"}

\* ------------------------------------------------------------------ events

\* unloadEvent without the early return: after the warning it reads the
\* missing entry, and event.name throws TypeError.
UnloadEventResultNoReturn(store, table, key, hasLogger) ==
    IF ~StoreHas(store, key)
    THEN [store |-> store, table |-> table, threw |-> TRUE,
          warns |-> IF hasLogger THEN 1 ELSE 0, infos |-> 0, calls |-> <<>>]
    ELSE [store |-> store,
          table |-> Off(table, store[key].name, store[key].execute),
          threw |-> FALSE, warns |-> 0,
          infos |-> IF hasLogger THEN 1 ELSE 0,
          calls |-> <<[m |-> "off", name |-> store[key].name,
                       fn |-> store[key].execute]>>]

\* unloadEvent(store, client, key, logger?): logger?.warn and logger?.info log
\* only when a logger is passed.
UnloadEventResult(store, table, key, hasLogger) ==
    IF ~StoreHas(store, key)
    THEN [store |-> store, table |-> table, threw |-> FALSE,
          warns |-> IF hasLogger THEN 1 ELSE 0, infos |-> 0, calls |-> <<>>]
    ELSE LET event == store[key]
         IN [store |-> store,
             table |-> Off(table, event.name, event.execute),
             threw |-> FALSE, warns |-> 0,
             infos |-> IF hasLogger THEN 1 ELSE 0,
             calls |-> <<[m |-> "off", name |-> event.name, fn |-> event.execute]>>]

\* loadEvent(store, client, key, pino, event); id names the new execute closure.
LoadEventResult(store, table, key, event, id) ==
    IF StoreHas(store, key) /\ ~StoreHas(store, event.name)
    THEN \* store.get(event.name)! is undefined: oldListener.execute throws TypeError
         [store |-> store, table |-> table, threw |-> TRUE,
          warns |-> 0, infos |-> 0, calls |-> <<>>]
    ELSE LET fn == EventClosure(event, id)
             reload == StoreHas(store, key)
             old == store[event.name].execute
             detached == IF reload THEN Off(table, key, old) ELSE table
             offCall == IF reload
                        THEN <<[m |-> "off", name |-> key, fn |-> old]>>
                        ELSE <<>>
             onCall == [m |-> IF event.once THEN "once" ELSE "on",
                        name |-> event.name, fn |-> fn]
         IN [store |-> StoreSet(store, key, [name |-> event.name, execute |-> fn]),
             table |-> On(detached, event.name, fn, event.once),
             threw |-> FALSE, warns |-> 0, infos |-> 0,
             calls |-> offCall \o <<onCall>>]

\* One entry of the trace: the call, the store before it, and what it did.
Entry(op, key, event, hasLogger, before, r) ==
    [op |-> op, key |-> key, event |-> event, hasLogger |-> hasLogger,
     hadEntry |-> StoreHas(before, key), before |-> before,
     threw |-> r.threw, warns |-> r.warns, infos |-> r.infos, calls |-> r.calls]

\* What an emit did: no store change, no client call, nothing logged by the registry.
Emitted == [threw |-> FALSE, warns |-> 0, infos |-> 0, calls |-> <<>>]

NoEvent == [name |-> "", once |-> FALSE, setup |-> FALSE]

\* loadEvent that also empties the command store.
LoadEventClearsCommands(key, event) ==
    /\ Len(trace) < MaxOps
    /\ LET r == LoadEventResult(eventStore, listeners, key, event, Len(trace) + 1)
       IN /\ eventStore' = r.store
          /\ listeners' = r.table
          /\ trace' = Append(trace, Entry("loadEvent", key, event, FALSE, eventStore, r))
    /\ commandStore' = EmptyStore
    /\ UNCHANGED <<loads, invVars, keyVars, scriptVars, startVars>>

LoadEvent(key, event) ==
    /\ Len(trace) < MaxOps
    /\ LET r == LoadEventResult(eventStore, listeners, key, event, Len(trace) + 1)
       IN /\ eventStore' = r.store
          /\ listeners' = r.table
          /\ trace' = Append(trace, Entry("loadEvent", key, event, FALSE, eventStore, r))
    /\ UNCHANGED <<cmdVars, invVars, keyVars, scriptVars, startVars>>

UnloadEvent(key, hasLogger) ==
    /\ Len(trace) < MaxOps
    /\ LET r == UnloadEventResult(eventStore, listeners, key, hasLogger)
       IN /\ eventStore' = r.store
          /\ listeners' = r.table
          /\ trace' = Append(trace, Entry("unloadEvent", key, NoEvent, hasLogger, eventStore, r))
    /\ UNCHANGED <<cmdVars, invVars, keyVars, scriptVars, startVars>>

\* ------------------------------------------------------------------ keys

\* createKey(...args) of ../internals: the segments joined by ":".
RECURSIVE createKey(_)
createKey(args) ==
    IF Len(args) = 0 THEN ""
    ELSE IF Len(args) = 1 THEN args[1]
    ELSE args[1] \o ":" \o createKey(Tail(args))

\* getAutocompletes(options) of ../internals: the options that declare an
\* autocomplete handler (none when options is undefined).
getAutocompletes(options) == SelectSeq(options, LAMBDA option : option.autocomplete)

\* loadSlashCommand: parentKey and key.
SlashParentKey(command) == createKey(<<command.name>>)
SlashKey(command) == createKey(<<"cmd", SlashParentKey(command)>>)

\* loadSubcommand: parentKey and key.
SubcommandParentKey(parentName, subcommand) == createKey(<<parentName, subcommand.name>>)
SubcommandKey(parentName, subcommand) ==
    createKey(<<"cmd", SubcommandParentKey(parentName, subcommand)>>)

\* loadSubcommandGroup: parentKey and key of one member of the group.
GroupParentKey(parentName, group, subcommand) ==
    createKey(<<parentName, group.name, subcommand.name>>)
\* A group member keyed by its group alone.
GroupKeyOfGroup(parentName, group, subcommand) ==
    createKey(<<"cmd", createKey(<<parentName, group.name>>)>>)
GroupKey(parentName, group, subcommand) ==
    createKey(<<"cmd", GroupParentKey(parentName, group, subcommand)>>)

\* An autocomplete key without the parent key.
AutocompleteKeyNoParent(parentKey, option) == createKey(<<"auto", option.name>>)

\* loadAutocompletes: key of one option.
AutocompleteKey(parentKey, option) == createKey(<<"auto", parentKey, option.name>>)

UserKey(command) == createKey(<<"usr", command.name>>)
MessageKey(command) == createKey(<<"msg", command.name>>)

\* ------------------------------------------------------------------ commands

\* store.set(key, { execute, logger }) on the running result r = [store, writes].
Put(r, key, category, execute) ==
    [store |-> StoreSet(r.store, key,
                        [execute |-> execute, logger |-> <<category, key>>]),
     writes |-> Append(r.writes, [key |-> key, category |-> category])]

RECURSIVE AutocompleteLoop(_, _, _, _)
AutocompleteLoop(r, parentKey, file, options) ==
    IF Len(options) = 0 THEN r
    ELSE LET option == Head(options)
             key == AutocompleteKey(parentKey, option)
             execute == Closure("loadAutocompletes", file, option.setup)
         IN AutocompleteLoop(Put(r, key, "autocomplete", execute),
                             parentKey, file, Tail(options))

loadAutocompletes(r, parentKey, file, options) ==
    AutocompleteLoop(r, parentKey, file, getAutocompletes(options))

loadSlashCommand(r, command) ==
    LET parentKey == SlashParentKey(command)
        key == SlashKey(command)
        execute == Closure("loadSlashCommand", command.file, command.setup)
    IN loadAutocompletes(Put(r, key, "command", execute),
                         parentKey, command.file, command.options)

loadSubcommand(r, parentName, file, subcommand) ==
    LET parentKey == SubcommandParentKey(parentName, subcommand)
        key == SubcommandKey(parentName, subcommand)
        execute == Closure("loadSubcommand", file, subcommand.setup)
    IN loadAutocompletes(Put(r, key, "subcommand", execute),
                         parentKey, file, subcommand.options)

RECURSIVE loadSubcommandGroup(_, _, _, _, _)
loadSubcommandGroup(r, parentName, file, group, members) ==
    IF Len(members) = 0 THEN r
    ELSE LET subcommand == Head(members)
             parentKey == GroupParentKey(parentName, group, subcommand)
             key == GroupKey(parentName, group, subcommand)
             execute == Closure("loadSubcommandGroup", file, subcommand.setup)
         IN loadSubcommandGroup(
                loadAutocompletes(Put(r, key, "subcommand", execute),
                                  parentKey, file, subcommand.options),
                parentName, file, group, Tail(members))

RECURSIVE SlashSubcommandLoop(_, _, _)
SlashSubcommandLoop(r, command, options) ==
    IF Len(options) = 0 THEN r
    ELSE LET option == Head(options)
             next == IF option.type = "SUB_COMMAND"
                     THEN loadSubcommand(r, command.name, command.file, option)
                     ELSE IF option.type = "SUB_COMMAND_GROUP"
                     THEN loadSubcommandGroup(r, command.name, command.file,
                                              option, option.options)
                     ELSE r
         IN SlashSubcommandLoop(next, command, Tail(options))

loadSlashSubcommand(r, command) == SlashSubcommandLoop(r, command, command.options)

loadUserCommand(r, command) ==
    Put(r, UserKey(command), "user",
        Closure("loadUserCommand", command.file, command.setup))

loadMessageCommand(r, command) ==
    Put(r, MessageKey(command), "message",
        Closure("loadMessageCommand", command.file, command.setup))

\* One loader call on a store.
Load(op, store, command) ==
    LET r == [store |-> store, writes |-> <<>>]
    IN CASE op = "loadSlashCommand" -> loadSlashCommand(r, command)
         [] op = "loadSlashSubcommand" -> loadSlashSubcommand(r, command)
         [] op = "loadUserCommand" -> loadUserCommand(r, command)
         [] op = "loadMessageCommand" -> loadMessageCommand(r, command)

\* ------------------------------------------------------------------ command inputs

\* Loader calls in one behaviour.
MaxLoads == 2

\* The modules (files) definitions come from.
Files == {"A", "B"}

CommandNames == {"p", "q"}

Leaf(name, autocomplete) ==
    [name |-> name, type |-> "STRING", autocomplete |-> autocomplete,
     setup |-> TRUE, options |-> <<>>]

Subcommand(name, options) ==
    [name |-> name, type |-> "SUB_COMMAND", autocomplete |-> FALSE,
     setup |-> TRUE, options |-> options]

SubcommandGroup(name, members) ==
    [name |-> name, type |-> "SUB_COMMAND_GROUP", autocomplete |-> FALSE,
     setup |-> TRUE, options |-> members]

LeafOptions == {<<>>, <<Leaf("o", TRUE)>>, <<Leaf("o", FALSE)>>}

Subcommands ==
    {Subcommand("s", <<>>), Subcommand("s", <<Leaf("o", TRUE)>>), Subcommand("t", <<>>)}

SubcommandGroups ==
    {SubcommandGroup("g", <<Subcommand("s", <<>>)>>),
     SubcommandGroup("g", <<Subcommand("s", <<Leaf("o", TRUE)>>)>>),
     SubcommandGroup("g", <<Subcommand("s", <<>>), Subcommand("t", <<>>)>>)}

\* Option lists of a command with subcommands; sibling names are distinct, as
\* the platform requires of a command's options.
SubcommandOptions ==
    {<<>>} \cup {<<x>> : x \in Subcommands \cup SubcommandGroups}
           \cup {<<x, y>> : x \in Subcommands, y \in SubcommandGroups}

Definition(file, name, options) ==
    [file |-> file, name |-> name, setup |-> TRUE, options |-> options]

SlashCommands ==
    {Definition(f, n, o) : f \in Files, n \in CommandNames, o \in LeafOptions}
SlashSubcommands ==
    {Definition(f, n, o) : f \in Files, n \in CommandNames, o \in SubcommandOptions}
ContextCommands == {Definition(f, n, <<>>) : f \in Files, n \in CommandNames}

LoadCommand(op, command) ==
    /\ Len(loads) < MaxLoads
    /\ LET r == Load(op, commandStore, command)
       IN /\ commandStore' = r.store
          /\ loads' = Append(loads, [op |-> op, command |-> command,
                                     before |-> commandStore, after |-> r.store,
                                     writes |-> r.writes])
    /\ UNCHANGED <<eventVars, invVars, keyVars, scriptVars, startVars>>

\* ------------------------------------------------------------------ execute

\* A call of a compiled execute. The async function runs up to its first await,
\* so setup() has been called when the call returns; n is the value that call of
\* setup produces (a fresh object each call, here a strictly increasing counter).
\* pc: "setup" awaiting setup(), "run" awaiting the raw handler, then "resolved"
\* or "rejected", the state of the promise execute returned.
Invocation(h, n) ==
    [h |-> h, pc |-> "setup", deps |-> n, receiver |-> 0, failed |-> "",
     setupCalls |-> 1, rawCalls |-> 0, errors |-> 0, infos |-> 0]

IsEvent(inv) == inv.h.loader = "loadEvent"

\* execute of the command loaders has no try/catch: a failure of setup or of
\* the raw handler rejects the promise execute returned.
CommandExecuteFail(inv) == [inv EXCEPT !.pc = "rejected"]

\* execute of loadEvent, its catch block: one info entry and two error entries
\* (the message, then the error), and the promise resolves.
EventExecuteFailRethrows(inv) == [inv EXCEPT !.pc = "rejected", !.errors = @ + 2]
EventExecuteFailLogsOnce(inv) ==
    [inv EXCEPT !.pc = "resolved", !.infos = @ + 1, !.errors = @ + 1]
EventExecuteFail(inv) ==
    [inv EXCEPT !.pc = "resolved", !.infos = @ + 1, !.errors = @ + 2]

ExecuteFail(inv) ==
    IF IsEvent(inv) THEN EventExecuteFail(inv) ELSE CommandExecuteFail(inv)

\* The receiver of the raw handler: execute.call(deps, ...), deps being the
\* constant of this call of the closure.
RawReceiverLatest(inv) == setupCount
RawReceiver(inv) == inv.deps

\* After await setup(): the raw handler is called with deps as its receiver
\* (loadEvent logs "Running handler" first).
ExecuteRun(inv) ==
    [inv EXCEPT !.pc = "run", !.receiver = RawReceiver(inv), !.rawCalls = @ + 1,
                !.infos = IF IsEvent(inv) THEN @ + 1 ELSE @]

\* await setup() throws (setup threw or its promise rejected): the rest of the
\* body, the raw handler's call included, is skipped.
SetupFailedRunsRaw(inv) == ExecuteRun([inv EXCEPT !.failed = "setup"])
SetupFailed(inv) == ExecuteFail([inv EXCEPT !.failed = "setup"])

\* await of the raw handler throws (it threw or its promise rejected).
RawFailed(inv) == ExecuteFail([inv EXCEPT !.failed = "raw"])

\* The raw handler's promise resolved (loadEvent logs the response time).
ExecuteDone(inv) ==
    [inv EXCEPT !.pc = "resolved", !.infos = IF IsEvent(inv) THEN @ + 1 ELSE @]

\* A caller looks a command up and calls its execute.
CallExecute(key) ==
    /\ Len(invs) < MaxCalls
    /\ StoreHas(commandStore, key)
    /\ invs' = Append(invs, Invocation(commandStore[key].execute, setupCount + 1))
    /\ setupCount' = setupCount + 1
    /\ UNCHANGED <<eventVars, cmdVars, keyVars, scriptVars, startVars>>

\* The event source emits name: every listener attached under it is called, in
\* order, and the once listeners are removed.
Emit(name) ==
    LET ls == listeners[name]
    IN /\ Len(ls) > 0
       /\ Len(invs) + Len(ls) <= MaxCalls
       /\ invs' = invs \o [i \in 1..Len(ls) |-> Invocation(ls[i].fn, setupCount + i)]
       /\ setupCount' = setupCount + Len(ls)
       /\ listeners' = [listeners EXCEPT ![name] = SelectSeq(@, LAMBDA l : ~l.once)]
       /\ trace' = Append(trace, Entry("emit", name, NoEvent, FALSE, eventStore, Emitted))
       /\ UNCHANGED <<eventStore, cmdVars, keyVars, scriptVars, startVars>>

\* setup() settles for invocation i. The default setup never fails.
SetupSettled(i, ok) ==
    /\ invs[i].pc = "setup"
    /\ ok \/ invs[i].h.setup
    /\ invs' = [invs EXCEPT ![i] = IF ok THEN ExecuteRun(@) ELSE SetupFailed(@)]
    /\ UNCHANGED <<eventVars, cmdVars, setupCount, keyVars, scriptVars, startVars>>

\* The raw handler settles for invocation i.
RawSettled(i, ok) ==
    /\ invs[i].pc = "run"
    /\ invs' = [invs EXCEPT ![i] = IF ok THEN ExecuteDone(@) ELSE RawFailed(@)]
    /\ UNCHANGED <<eventVars, cmdVars, setupCount, keyVars, scriptVars, startVars>>

\* ------------------------------------------------------------------ key derivation

\* Name segments: non-empty, without the separator.
SegmentNames == {"a", "b", "ab", "cmd"}

Segments(n) == [1..n -> SegmentNames]

\* The logical paths the loaders key: a command (name), a subcommand (parent,
\* sub), a group member (parent, group, sub), an autocomplete option of any of
\* the three (..., option), a user command and a message command (name).
Paths ==
    [kind : {"cmd"}, segs : Segments(1) \cup Segments(2) \cup Segments(3)]
    \cup [kind : {"auto"}, segs : Segments(2) \cup Segments(3) \cup Segments(4)]
    \cup [kind : {"usr", "msg"}, segs : Segments(1)]

Named(name) == [name |-> name]

\* The parentKey the loader of a command path derives.
LoaderParentKey(segs) ==
    CASE Len(segs) = 1 -> SlashParentKey(Named(segs[1]))
      [] Len(segs) = 2 -> SubcommandParentKey(segs[1], Named(segs[2]))
      [] Len(segs) = 3 -> GroupParentKey(segs[1], Named(segs[2]), Named(segs[3]))

\* The key the loader of a path derives.
LoaderKey(path) ==
    CASE path.kind = "cmd" /\ Len(path.segs) = 1 -> SlashKey(Named(path.segs[1]))
      [] path.kind = "cmd" /\ Len(path.segs) = 2 ->
             SubcommandKey(path.segs[1], Named(path.segs[2]))
      [] path.kind = "cmd" /\ Len(path.segs) = 3 ->
             GroupKey(path.segs[1], Named(path.segs[2]), Named(path.segs[3]))
      [] path.kind = "auto" ->
             AutocompleteKey(
                 LoaderParentKey(SubSeq(path.segs, 1, Len(path.segs) - 1)),
                 Named(path.segs[Len(path.segs)]))
      [] path.kind = "usr" -> UserKey(Named(path.segs[1]))
      [] path.kind = "msg" -> MessageKey(Named(path.segs[1]))

\* A loader derives the key of a path; two derivations are kept to compare.
DeriveKey(path) ==
    /\ Len(derived) < 2
    /\ derived' = Append(derived, [path |-> path, key |-> LoaderKey(path)])
    /\ UNCHANGED <<eventVars, cmdVars, invVars, scriptVars, startVars>>

\* ------------------------------------------------------------------ scripts

\* loadScript and unloadScript calls in one behaviour.
MaxScriptOps == 4

\* Paths are sequences of segments. The project root, and the script files
\* (SourceMap: the source file under the root and its compiled target).
Root == <<"app">>

ScriptFiles ==
    {[source |-> Root \o <<"scripts", n>>, target |-> <<"dist", "scripts", n>>] :
        n \in {"a.js", "b.js"}}

\* relative(root, source) of node:path, for a source under the root.
relative(root, source) == SubSeq(source, Len(root) + 1, Len(source))

\* What importing a script module gives: the import fails, the module has no
\* chooksOnLoad, or chooksOnLoad throws (or rejects), returns nothing, or
\* returns a cleanup function.
ScriptModules == {"importFails", "noHook", "hookThrows", "hookNoCleanup", "hookCleanup"}

\* hasOnLoad(mod)
hasOnLoad(mod) == mod \in {"hookThrows", "hookNoCleanup", "hookCleanup"}

\* unloadScript that calls the cleanup without looking for the entry first.
UnloadScriptResultNoCheck(store, root, file, cleanupOk) ==
    LET relpath == relative(root, file.source)
    IN IF ~StoreHas(store, relpath)
       THEN [store |-> store, threw |-> FALSE, errors |-> 2, invoked |-> <<>>]
       ELSE [store |-> store, threw |-> FALSE,
             errors |-> IF cleanupOk THEN 0 ELSE 2,
             invoked |-> <<store[relpath]>>]

\* unloadScript(store, logger, root, file); cleanupOk: the cleanup neither
\* throws nor rejects. The entry is read, never deleted.
UnloadScriptResult(store, root, file, cleanupOk) ==
    LET relpath == relative(root, file.source)
    IN IF ~StoreHas(store, relpath)
       THEN [store |-> store, threw |-> FALSE, errors |-> 0, invoked |-> <<>>]
       ELSE [store |-> store, threw |-> FALSE,
             errors |-> IF cleanupOk THEN 0 ELSE 2,
             invoked |-> <<store[relpath]>>]

\* loadScript(store, client, pino, root, file); mod is what the import gives and
\* id names the cleanup function a hook returns. A failing import is outside
\* the try and rejects loadScript.
LoadScriptResult(store, root, file, mod, id) ==
    LET relpath == relative(root, file.source)
    IN IF mod = "importFails"
       THEN [store |-> store, threw |-> TRUE, errors |-> 0, invoked |-> <<>>]
       ELSE IF ~hasOnLoad(mod)
       THEN [store |-> store, threw |-> FALSE, errors |-> 0, invoked |-> <<>>]
       ELSE IF mod = "hookThrows"
       THEN [store |-> store, threw |-> FALSE, errors |-> 2, invoked |-> <<>>]
       ELSE [store |-> IF mod = "hookCleanup"
                       THEN StoreSet(store, relpath, [cleanup |-> id])
                       ELSE store,
             threw |-> FALSE, errors |-> 0, invoked |-> <<>>]

\* One entry of the script log.
ScriptEntry(op, file, mod, cleanupOk, before, r) ==
    [op |-> op, relpath |-> relative(Root, file.source), mod |-> mod,
     cleanupOk |-> cleanupOk, before |-> before, after |-> r.store,
     threw |-> r.threw, errors |-> r.errors, invoked |-> r.invoked]

LoadScript(file, mod) ==
    /\ Len(scripts) < MaxScriptOps
    /\ LET r == LoadScriptResult(cleanupStore, Root, file, mod, Len(scripts) + 1)
       IN /\ cleanupStore' = r.store
          /\ scripts' = Append(scripts,
                               ScriptEntry("loadScript", file, mod, TRUE, cleanupStore, r))
    /\ UNCHANGED <<eventVars, cmdVars, invVars, keyVars, startVars>>

UnloadScript(file, cleanupOk) ==
    /\ Len(scripts) < MaxScriptOps
    /\ LET r == UnloadScriptResult(cleanupStore, Root, file, cleanupOk)
       IN /\ cleanupStore' = r.store
          /\ scripts' = Append(scripts,
                               ScriptEntry("unloadScript", file, "", cleanupOk,
                                           cleanupStore, r))
    /\ UNCHANGED <<eventVars, cmdVars, invVars, keyVars, startVars>>

\* ------------------------------------------------------------------ start script

\* Files of the command directory in one behaviour.
MaxFiles == 2

\* What loadDir yields for a path: a directory, or a file whose default export
\* is empty ({}), a command that fails validateBaseCommand, or a valid command.
BatchFiles ==
    [kind : {"directory", "empty", "invalid"}, name : {""}]
    \cup [kind : {"valid"}, name : CommandNames]

Batches == UNION {[1..n -> BatchFiles] : n \in 1..MaxFiles}

\* Interactions the client emits: a command interaction with its commandName,
\* or an interaction that is no command.
Interactions ==
    [isCommand : {TRUE}, commandName : CommandNames]
    \cup [isCommand : {FALSE}, commandName : {""}]

\* CommandStore of @chookscord/lib: get and set of a map keyed by command name.
CommandStoreHas(store, name) == name \in DOMAIN store
CommandStoreSet(store, name, command) ==
    [k \in (DOMAIN store) \cup {name} |-> IF k = name THEN command ELSE store[k]]

\* The listener createListener returns.
InteractionListener == Closure("createListener", "", FALSE)

\* loadCommand without the returns after the two error logs.
LoadCommandResultNoReturn(store, file, i) ==
    IF file.kind = "valid"
    THEN [store |-> CommandStoreSet(store, file.name, [name |-> file.name, file |-> i]),
          set |-> <<[name |-> file.name, file |-> i]>>, errors |-> 0]
    ELSE [store |-> CommandStoreSet(store, file.name, [name |-> file.name, file |-> i]),
          set |-> <<[name |-> file.name, file |-> i]>>, errors |-> 1]

\* loadCommand(filePath) after its import resolved, for the file at index i:
\* an empty export and a validation error are logged and nothing is stored;
\* a valid command is stored under its name.
LoadCommandResult(store, file, i) ==
    IF file.kind = "empty"
    THEN [store |-> store, set |-> <<>>, errors |-> 1]
    ELSE IF file.kind = "invalid"
    THEN [store |-> store, set |-> <<>>, errors |-> 1]
    ELSE [store |-> CommandStoreSet(store, file.name, [name |-> file.name, file |-> i]),
          set |-> <<[name |-> file.name, file |-> i]>>, errors |-> 0]

\* init: files = await lib.loadDir(config.input); without files it logs an
\* error and returns.
StartInit(files, ok) ==
    /\ initPc = "idle"
    /\ batch' = files
    /\ tasks' = [i \in 1..Len(files) |-> "none"]
    /\ initPc' = IF ok THEN "loop" ELSE "returned"
    /\ UNCHANGED <<nextFile, startStore, stored, dispatches>>
    /\ UNCHANGED <<eventVars, cmdVars, invVars, keyVars, scriptVars>>

\* init, one turn of the loop: a directory is skipped; for a file loadCommand
\* is called and not awaited, so it is left at its await of the import.
LoopFile ==
    /\ initPc = "loop"
    /\ nextFile <= Len(batch)
    /\ tasks' = [tasks EXCEPT ![nextFile] =
                    IF batch[nextFile].kind = "directory" THEN "skipped" ELSE "importing"]
    /\ nextFile' = nextFile + 1
    /\ UNCHANGED <<batch, initPc, startStore, stored, dispatches>>
    /\ UNCHANGED <<eventVars, cmdVars, invVars, keyVars, scriptVars>>

\* init, after the loop: the listener is attached and init resolves.
LoopEnd ==
    /\ initPc = "loop"
    /\ nextFile > Len(batch)
    /\ listeners' = On(listeners, "interactionCreate", InteractionListener, FALSE)
    /\ initPc' = "done"
    /\ UNCHANGED <<batch, nextFile, tasks, startStore, stored, dispatches>>
    /\ UNCHANGED <<eventStore, trace, cmdVars, invVars, keyVars, scriptVars>>

\* The import of file i resolves and its loadCommand runs to its end.
ImportDone(i) ==
    /\ tasks[i] = "importing"
    /\ LET r == LoadCommandResult(startStore, batch[i], i)
       IN /\ startStore' = r.store
          /\ stored' = stored \o r.set
    /\ tasks' = [tasks EXCEPT ![i] = "done"]
    /\ UNCHANGED <<batch, initPc, nextFile, dispatches>>
    /\ UNCHANGED <<eventVars, cmdVars, invVars, keyVars, scriptVars>>

\* The number of dispatches that have settled.
Settled == Cardinality({d \in 1..Len(dispatches) : dispatches[d].pc # "running"})

\* The listener is called with an interaction: no command, no handler in the
\* store (a warning), or the handler found is called and awaited. at is the
\* number of store.set calls before the lookup.
ListenerCall(store, interaction, at) ==
    LET base == [isCommand |-> interaction.isCommand, name |-> interaction.commandName,
                 at |-> at, doneAt |-> at, after |-> Settled,
                 found |-> FALSE, handler |-> 0, ranOn |-> 0, executed |-> 0,
                 failed |-> FALSE, warns |-> 0, errors |-> 0, pc |-> "resolved"]
    IN IF ~interaction.isCommand THEN base
       ELSE IF ~CommandStoreHas(store, interaction.commandName)
       THEN [base EXCEPT !.warns = 1]
       ELSE [base EXCEPT !.found = TRUE, !.executed = 1, !.pc = "running",
                         !.handler = store[interaction.commandName].file]

\* The handler a dispatch is running: the command the lookup returned.
RunningHandlerLive(d) == startStore[d.name].file
RunningHandler(d) == d.handler

\* The listener's catch: two error entries, and the listener resolves.
ListenerFailRejects(d) == [d EXCEPT !.failed = TRUE, !.pc = "rejected"]
ListenerFail(d) == [d EXCEPT !.failed = TRUE, !.errors = @ + 2, !.pc = "resolved"]

Interaction(interaction) ==
    /\ Len(listeners["interactionCreate"]) > 0
    /\ Len(dispatches) < MaxCalls
    /\ dispatches' = Append(dispatches, ListenerCall(startStore, interaction, Len(stored)))
    /\ UNCHANGED <<batch, initPc, nextFile, tasks, startStore, stored>>
    /\ UNCHANGED <<eventVars, cmdVars, invVars, keyVars, scriptVars>>

\* command.execute settles for dispatch d.
HandlerSettled(d, ok) ==
    /\ dispatches[d].pc = "running"
    /\ LET done == [dispatches[d] EXCEPT !.ranOn = RunningHandler(dispatches[d]),
                                         !.doneAt = Len(stored)]
       IN dispatches' = [dispatches EXCEPT ![d] =
                            IF ok THEN [done EXCEPT !.pc = "resolved"]
                            ELSE ListenerFail(done)]
    /\ UNCHANGED <<batch, initPc, nextFile, tasks, startStore, stored>>
    /\ UNCHANGED <<eventVars, cmdVars, invVars, keyVars, scriptVars>>

\* ------------------------------------------------------------------ specifications

Empty ==
    /\ eventStore = EmptyStore
    /\ listeners = [n \in ListenerNames |-> <<>>]
    /\ trace = <<>>
    /\ commandStore = EmptyStore
    /\ loads = <<>>
    /\ invs = <<>>
    /\ setupCount = 0
    /\ derived = <<>>
    /\ cleanupStore = EmptyStore
    /\ scripts = <<>>
    /\ batch = <<>>
    /\ initPc = "idle"
    /\ nextFile = 1
    /\ tasks = <<>>
    /\ startStore = EmptyStore
    /\ stored = <<>>
    /\ dispatches = <<>>

\* The event registry: loads, unloads and emits on an empty registry.
InitEvent == Empty

NextEvent ==
    \/ \E key \in EventKeys, event \in {e \in Events : e.setup} : LoadEvent(key, event)
    \/ \E key \in EventKeys, hasLogger \in BOOLEAN : UnloadEvent(key, hasLogger)
    \/ \E name \in EventNames : Emit(name)

SpecEvent == InitEvent /\ [][NextEvent]_vars

\* The command loaders on an empty command store.
InitCommand == Empty

NextCommand ==
    \/ \E command \in SlashCommands : LoadCommand("loadSlashCommand", command)
    \/ \E command \in SlashSubcommands : LoadCommand("loadSlashSubcommand", command)
    \/ \E command \in ContextCommands : LoadCommand("loadUserCommand", command)
    \/ \E command \in ContextCommands : LoadCommand("loadMessageCommand", command)

SpecCommand == InitCommand /\ [][NextCommand]_vars

\* The compiled handlers at work: a registry holding one module of every kind,
\* whose handlers are called and settle in any interleaving.
SampleCommands ==
    LET r0 == [store |-> EmptyStore, writes |-> <<>>]
        r1 == loadSlashCommand(r0, Definition("A", "p", <<Leaf("o", TRUE)>>))
        r2 == loadSlashSubcommand(r1,
                  Definition("A", "q",
                             <<Subcommand("s", <<>>),
                               SubcommandGroup("g", <<Subcommand("s", <<>>)>>)>>))
        r3 == loadUserCommand(r2, [Definition("A", "u", <<>>) EXCEPT !.setup = FALSE])
    IN loadMessageCommand(r3, Definition("A", "m", <<>>))

SampleEvents ==
    LET t0 == [n \in ListenerNames |-> <<>>]
        e1 == [name |-> "ready", once |-> FALSE, setup |-> TRUE]
        e2 == [name |-> "message", once |-> TRUE, setup |-> FALSE]
        r1 == LoadEventResult(EmptyStore, t0, "ready", e1, 1)
        r2 == LoadEventResult(r1.store, r1.table, "message", e2, 2)
    IN [store |-> r2.store, table |-> r2.table,
        trace |-> <<Entry("loadEvent", "ready", e1, FALSE, EmptyStore, r1),
                    Entry("loadEvent", "message", e2, FALSE, r1.store, r2)>>]

InitEnvelope ==
    /\ eventStore = SampleEvents.store
    /\ listeners = SampleEvents.table
    /\ trace = SampleEvents.trace
    /\ commandStore = SampleCommands.store
    /\ loads = <<>>
    /\ invs = <<>>
    /\ setupCount = 0
    /\ derived = <<>>
    /\ cleanupStore = EmptyStore
    /\ scripts = <<>>
    /\ batch = <<>>
    /\ initPc = "idle"
    /\ nextFile = 1
    /\ tasks = <<>>
    /\ startStore = EmptyStore
    /\ stored = <<>>
    /\ dispatches = <<>>

NextEnvelope ==
    \/ \E key \in DOMAIN commandStore : CallExecute(key)
    \/ \E name \in EventNames : Emit(name)
    \/ \E i \in 1..Len(invs), ok \in BOOLEAN : SetupSettled(i, ok)
    \/ \E i \in 1..Len(invs), ok \in BOOLEAN : RawSettled(i, ok)

SpecEnvelope == InitEnvelope /\ [][NextEnvelope]_vars

\* The key derivation of the loaders on any two paths.
InitKey == Empty

NextKey == \E path \in Paths : DeriveKey(path)

SpecKey == InitKey /\ [][NextKey]_vars

\* The script registry: loads and unloads of script files on an empty registry.
InitScript == Empty

NextScript ==
    \/ \E file \in ScriptFiles, mod \in ScriptModules : LoadScript(file, mod)
    \/ \E file \in ScriptFiles, cleanupOk \in BOOLEAN : UnloadScript(file, cleanupOk)

SpecScript == InitScript /\ [][NextScript]_vars

\* All registry operations together, on one shared set of stores and one
\* client, at most MaxSteps of them in one behaviour.
MaxSteps == 3

RegistryOpen == Len(loads) + Len(trace) + Len(scripts) < MaxSteps

RegistryCommands ==
    {<<"loadSlashCommand", Definition("A", "p", <<Leaf("o", TRUE)>>)>>,
     <<"loadSlashSubcommand", Definition("A", "q", <<Subcommand("s", <<>>)>>)>>,
     <<"loadUserCommand", Definition("A", "p", <<>>)>>,
     <<"loadMessageCommand", Definition("B", "p", <<>>)>>}

InitRegistry == Empty

NextRegistry ==
    \/ \E load \in RegistryCommands :
          RegistryOpen /\ LoadCommand(load[1], load[2])
    \/ \E key \in EventKeys, event \in {e \in Events : e.setup /\ e.name = "ready"} :
          RegistryOpen /\ LoadEvent(key, event)
    \/ \E key \in EventKeys, hasLogger \in BOOLEAN :
          RegistryOpen /\ UnloadEvent(key, hasLogger)
    \/ \E file \in ScriptFiles, mod \in {"noHook", "hookCleanup"} :
          RegistryOpen /\ LoadScript(file, mod)
    \/ \E file \in ScriptFiles, cleanupOk \in {TRUE} :
          RegistryOpen /\ UnloadScript(file, cleanupOk)

SpecRegistry == InitRegistry /\ [][NextRegistry]_vars

\* The start script's command module: init on a batch of files, the loads it
\* leaves running, and the interactions the client emits.
InitStart == Empty

NextStart ==
    \/ \E files \in Batches, ok \in BOOLEAN : StartInit(files, ok)
    \/ LoopFile
    \/ LoopEnd
    \/ \E i \in 1..Len(batch) : ImportDone(i)
    \/ \E interaction \in Interactions : Interaction(interaction)
    \/ \E d \in 1..Len(dispatches), ok \in BOOLEAN : HandlerSettled(d, ok)

SpecStart == InitStart /\ [][NextStart]_vars

\* ------------------------------------------------------------------ event claims

\* The event store after operation i of the trace.
After(i) == IF i < Len(trace) THEN trace[i + 1].before ELSE eventStore

\* Operation i is a loadEvent call that registered its listener.
Registers(i) == trace[i].op = "loadEvent" /\ ~trace[i].threw

\* The listeners that loadEvent calls for key attached and that are now
\* attached under the event name of the key's entry.
ListenersOf(key) ==
    LET name == eventStore[key].name
    IN {j \in 1..Len(listeners[name]) : trace[listeners[name][j].fn.id].key = key}

\* C1: in a sequence of loadEvent calls, every key registered at least once has
\* exactly one listener attached by the registry, however often it is registered
\* again. (The code detaches store.get(event.name) under the name key.)
C1_OneListenerPerKey ==
    (\A i \in 1..Len(trace) : trace[i].op = "loadEvent")
        => \A key \in EventKeys :
               (\E i \in 1..Len(trace) : Registers(i) /\ trace[i].key = key)
                   => Cardinality(ListenersOf(key)) = 1

\* C9 as stated: unloadEvent for a key with no entry does not throw, logs
\* exactly one warning, makes no off call and leaves the event store unchanged.
C9_OneWarningAlways ==
    \A i \in 1..Len(trace) :
        (trace[i].op = "unloadEvent" /\ ~trace[i].hadEntry)
            => /\ ~trace[i].threw
               /\ trace[i].warns = 1
               /\ trace[i].calls = <<>>
               /\ After(i) = trace[i].before

\* C9 amended: unloadEvent for a key with no entry does not throw, makes no off
\* call, leaves the event store unchanged, and logs exactly one warning when a
\* logger is passed and nothing when the optional logger is omitted.
C9_UnloadMissingKey ==
    \A i \in 1..Len(trace) :
        (trace[i].op = "unloadEvent" /\ ~trace[i].hadEntry)
            => /\ ~trace[i].threw
               /\ trace[i].warns = (IF trace[i].hasLogger THEN 1 ELSE 0)
               /\ trace[i].infos = 0
               /\ trace[i].calls = <<>>
               /\ After(i) = trace[i].before

\* An unloadEvent with a logger for a key that is absent while other keys are stored.
C9_Witness ==
    \E i \in 1..Len(trace) :
        /\ trace[i].op = "unloadEvent"
        /\ ~trace[i].hadEntry
        /\ trace[i].hasLogger
        /\ trace[i].warns = 1
        /\ DOMAIN trace[i].before # {}

\* C10: after unloadEvent on a registered key the key is unregistered: its
\* listener is detached and the event store holds no entry for it, so an
\* unloadEvent that follows at once finds no entry. (The code never deletes.)
C10_UnregisteredAfterUnload ==
    \A i \in 1..Len(trace) :
        (trace[i].op = "unloadEvent" /\ trace[i].hadEntry)
            => /\ ~StoreHas(After(i), trace[i].key)
               /\ (i < Len(trace) /\ trace[i + 1].op = "unloadEvent"
                       /\ trace[i + 1].key = trace[i].key)
                      => trace[i + 1].warns = (IF trace[i + 1].hasLogger THEN 1 ELSE 0)
                         /\ trace[i + 1].calls = <<>>

\* C15: every off call of loadEvent or unloadEvent passes the event name and
\* the function that the on/once call for the entry stored under the key
\* passed, and in a reload the off call comes before the on/once call of the
\* new listener. (loadEvent passes the key as name and the function stored
\* under the event's name.)
C15_OffMatchesOn ==
    \A i \in 1..Len(trace) :
        \A c \in 1..Len(trace[i].calls) :
            trace[i].calls[c].m = "off"
                => /\ trace[i].hadEntry
                   /\ trace[i].calls[c].name = trace[i].before[trace[i].key].name
                   /\ trace[i].calls[c].fn = trace[i].before[trace[i].key].execute
                   /\ \A d \in 1..Len(trace[i].calls) :
                          trace[i].calls[d].m \in {"on", "once"} => c < d

\* ------------------------------------------------------------------ envelope claims

Invs == 1..Len(invs)

C3_OneErrorEntry ==
    \A i \in Invs :
        /\ invs[i].failed = "raw" => invs[i].errors = 1
        /\ (invs[i].pc = "resolved" /\ invs[i].failed = "") => invs[i].errors = 0

\* C3 amended: an invocation whose raw handler throws logs exactly two error
\* entries (the message, then the error) for an event handler and none for a
\* command-kind handler, and one that succeeds logs none.
C3_ErrorEntries ==
    \A i \in Invs :
        /\ invs[i].failed = "raw"
               => invs[i].errors = (IF IsEvent(invs[i]) THEN 2 ELSE 0)
        /\ (invs[i].pc = "resolved" /\ invs[i].failed = "") => invs[i].errors = 0

\* A failed and a successful run of event handlers.
C3_Witness ==
    \E i, j \in Invs :
        /\ invs[i].failed = "raw" /\ IsEvent(invs[i]) /\ invs[i].errors = 2
        /\ invs[j].failed = "" /\ invs[j].pc = "resolved" /\ IsEvent(invs[j])

C5_FreshDepsPerInvocation ==
    /\ setupCount = Len(invs)
    /\ \A i \in Invs :
           /\ invs[i].setupCalls = 1
           /\ invs[i].rawCalls <= 1
           /\ invs[i].rawCalls = 1 => invs[i].receiver = invs[i].deps
    /\ \A i, j \in Invs : i # j => invs[i].deps # invs[j].deps

\* Two invocations of one compiled handler in flight at once, both inside the
\* raw handler, the later one having called it first or not.
C5_Witness ==
    \E i, j \in Invs :
        /\ i < j
        /\ invs[i].h = invs[j].h
        /\ invs[i].pc = "run" /\ invs[j].pc = "run"
        /\ invs[i].receiver # invs[j].receiver

\* ------------------------------------------------------------------ command claims

Loads == 1..Len(loads)

\* The keys a load wrote.
Written(i) == {loads[i].writes[w].key : w \in 1..Len(loads[i].writes)}

\* The key of the command itself, for the loaders that register one.
CommandKey(op, command) ==
    CASE op = "loadSlashCommand" -> "cmd:" \o command.name
      [] op = "loadUserCommand" -> "usr:" \o command.name
      [] op = "loadMessageCommand" -> "msg:" \o command.name

\* Load i + 1 (file B) redefines the command of load i (file A).
Redefines(i) ==
    /\ i + 1 <= Len(loads)
    /\ loads[i].op # "loadSlashSubcommand"
    /\ loads[i + 1].op = loads[i].op
    /\ loads[i + 1].command.name = loads[i].command.name
    /\ loads[i + 1].command.file # loads[i].command.file

\* The entries of the two stores agree under key.
SameEntry(a, b, key) ==
    (key \in DOMAIN a) = (key \in DOMAIN b) /\ (key \in DOMAIN a => a[key] = b[key])

\* C6 as stated: after file A and then file B define the same command, the
\* store holds B's handler under the command's key and the entries under all
\* other keys are unchanged.
C6_OnlyThatKeyChanges ==
    \A i \in Loads :
        Redefines(i)
            => LET b == loads[i + 1]
                   key == CommandKey(b.op, b.command)
               IN /\ StoreHas(b.after, key)
                  /\ b.after[key].execute.file = b.command.file
                  /\ \A k \in (DOMAIN b.before \cup DOMAIN b.after) \ {key} :
                         SameEntry(b.before, b.after, k)

\* C6 amended: after file A and then file B define the same command, the store
\* holds B's handler under the command's key, B's autocomplete handlers under
\* the auto keys of B's autocomplete options, and the entries under all other
\* keys are unchanged (an auto entry of A that B does not redefine stays).
C6_LastWriteWins ==
    \A i \in Loads :
        Redefines(i)
            => LET b == loads[i + 1]
                   key == CommandKey(b.op, b.command)
               IN /\ StoreHas(b.after, key)
                  /\ key \in Written(i + 1)
                  /\ \A k \in Written(i + 1) :
                         /\ StoreHas(b.after, k)
                         /\ b.after[k].execute.file = b.command.file
                         /\ k # key => b.after[k].execute.loader = "loadAutocompletes"
                  /\ \A k \in (DOMAIN b.before \cup DOMAIN b.after) \ Written(i + 1) :
                         SameEntry(b.before, b.after, k)

\* File B redefines a slash command of file A and brings an autocomplete option.
C6_Witness ==
    \E i \in Loads :
        /\ Redefines(i)
        /\ loads[i].op = "loadSlashCommand"
        /\ Cardinality(Written(i + 1)) = 2
        /\ loads[i + 1].before["cmd:" \o loads[i].command.name].execute.file
               = loads[i].command.file

\* The options of a given type.
OfType(options, type) == {options[o] : o \in {x \in 1..Len(options) : options[x].type = type}}

Members(group) == {group.options[m] : m \in 1..Len(group.options)}

\* The cmd keys loadSlashSubcommand is to register for a command.
SubcommandKeys(command) ==
    {"cmd:" \o command.name \o ":" \o sub.name :
        sub \in OfType(command.options, "SUB_COMMAND")}
GroupMemberKeys(command) ==
    UNION {{"cmd:" \o command.name \o ":" \o group.name \o ":" \o sub.name :
               sub \in Members(group)} :
           group \in OfType(command.options, "SUB_COMMAND_GROUP")}

\* The writes of a load under a logger category.
WritesAs(i, category) ==
    {w \in 1..Len(loads[i].writes) : loads[i].writes[w].category = category}

RECURSIVE SumMembers(_)
SumMembers(groups) ==
    IF groups = {} THEN 0
    ELSE LET g == CHOOSE x \in groups : TRUE
         IN Len(g.options) + SumMembers(groups \ {g})

\* C7: loadSlashSubcommand for parent p registers one cmd entry per SUB_COMMAND
\* option at cmd:p:sub and one per member of each SUB_COMMAND_GROUP option at
\* cmd:p:group:sub, and none at cmd:p or at cmd:p:group.
C7_SubcommandKeys ==
    \A i \in Loads :
        loads[i].op = "loadSlashSubcommand"
            => LET c == loads[i].command
                   cmds == WritesAs(i, "subcommand")
               IN /\ {loads[i].writes[w].key : w \in cmds}
                         = SubcommandKeys(c) \cup GroupMemberKeys(c)
                  /\ Cardinality(cmds)
                         = Cardinality(OfType(c.options, "SUB_COMMAND"))
                           + SumMembers(OfType(c.options, "SUB_COMMAND_GROUP"))
                  /\ WritesAs(i, "command") = {}
                  /\ ("cmd:" \o c.name) \notin Written(i)
                  /\ \A group \in OfType(c.options, "SUB_COMMAND_GROUP") :
                         ("cmd:" \o c.name \o ":" \o group.name) \notin Written(i)
                  /\ \A k \in Written(i) : StoreHas(loads[i].after, k)

\* A load of a command with a subcommand and a group of two members.
C7_Witness ==
    \E i \in Loads :
        /\ loads[i].op = "loadSlashSubcommand"
        /\ loads[i].command.name = "p"
        /\ "cmd:p:s" \in Written(i)
        /\ "cmd:p:g:s" \in Written(i)
        /\ "cmd:p:g:t" \in Written(i)
        /\ ~StoreHas(loads[i].after, "cmd:p:g")

\* ------------------------------------------------------------------ key claims

\* C8: over names that are non-empty and hold no separator, the keys the
\* loaders derive are injective: two paths (kind, segments) get the same key
\* exactly when they are the same path.
C8_KeysInjective ==
    \A i, j \in 1..Len(derived) :
        (derived[i].key = derived[j].key) <=> (derived[i].path = derived[j].path)

\* Two paths whose names concatenate alike (subcommand "b" of "a" against the
\* command "ab"), keyed differently.
C8_Witness ==
    /\ Len(derived) = 2
    /\ derived[1].path = [kind |-> "cmd", segs |-> <<"a", "b">>]
    /\ derived[2].path = [kind |-> "cmd", segs |-> <<"ab">>]
    /\ derived[1].key = "cmd:a:b"
    /\ derived[2].key = "cmd:ab"

\* ------------------------------------------------------------------ script claims

Scripts == 1..Len(scripts)

\* Operation j is the first unloadScript of operation i's path after i.
NextUnload(i, j) ==
    /\ i < j
    /\ scripts[j].op = "unloadScript"
    /\ scripts[j].relpath = scripts[i].relpath
    /\ \A k \in (i + 1)..(j - 1) :
           ~(scripts[k].op = "unloadScript" /\ scripts[k].relpath = scripts[i].relpath)

\* C11: unloadScript for a path with a stored cleanup invokes that cleanup,
\* logs a failure of it without propagating it, and afterwards the cleanup
\* store has no entry for the path, whether the cleanup succeeded or threw.
\* (The code never deletes the entry.)
C11_EntryRemovedAfterUnload ==
    \A i \in Scripts :
        (scripts[i].op = "unloadScript" /\ StoreHas(scripts[i].before, scripts[i].relpath))
            => /\ scripts[i].invoked = <<scripts[i].before[scripts[i].relpath]>>
               /\ ~scripts[i].threw
               /\ ~scripts[i].cleanupOk => scripts[i].errors > 0
               /\ ~StoreHas(scripts[i].after, scripts[i].relpath)

\* C12: when the load hook throws, loadScript logs the error and resolves, and
\* whatever loads and unloads of the path came before, the next unloadScript of
\* the path invokes no cleanup. (A cleanup stored by an earlier load stays in
\* the store and is invoked.)
C12_FailedLoadIsNotLoaded ==
    \A i \in Scripts :
        (scripts[i].op = "loadScript" /\ scripts[i].mod = "hookThrows")
            => /\ ~scripts[i].threw
               /\ scripts[i].errors > 0
               /\ \A j \in Scripts : NextUnload(i, j) => scripts[j].invoked = <<>>

\* The loads of a path up to operation i stored no cleanup for it.
NoCleanupRegistered(i) ==
    \A k \in 1..(i - 1) :
        (scripts[k].op = "loadScript" /\ scripts[k].relpath = scripts[i].relpath)
            => scripts[k].mod \in {"importFails", "noHook", "hookThrows", "hookNoCleanup"}

\* C13: unloading a script file that registered no cleanup (no load hook, or a
\* hook returning no cleanup) is a silent no-op: nothing is invoked, the store
\* is unchanged and nothing is logged at warn or error severity.
C13_UnloadWithoutCleanupIsSilent ==
    \A i \in Scripts :
        (scripts[i].op = "unloadScript" /\ NoCleanupRegistered(i))
            => /\ scripts[i].invoked = <<>>
               /\ scripts[i].after = scripts[i].before
               /\ scripts[i].errors = 0
               /\ ~scripts[i].threw

\* A file loaded without a hook, and again with a hook returning nothing, is
\* unloaded while another file has a cleanup stored.
C13_Witness ==
    \E i, j, k, u \in Scripts :
        /\ scripts[i].op = "loadScript" /\ scripts[i].mod = "noHook"
        /\ scripts[j].op = "loadScript" /\ scripts[j].mod = "hookNoCleanup"
        /\ scripts[j].relpath = scripts[i].relpath
        /\ scripts[k].op = "loadScript" /\ scripts[k].mod = "hookCleanup"
        /\ scripts[k].relpath # scripts[i].relpath
        /\ i < u /\ j < u /\ k < u
        /\ scripts[u].op = "unloadScript" /\ scripts[u].relpath = scripts[i].relpath
        /\ NoCleanupRegistered(u)

\* ------------------------------------------------------------------ start script claims

Dispatches == 1..Len(dispatches)
BatchIndex == 1..Len(batch)

\* The store.set calls made before position n that wrote command name.
SetsBefore(name, n) == {k \in 1..n : stored[k].name = name}

Latest(S) == CHOOSE k \in S : \A j \in S : j <= k

\* C14: a file that exports no command or a command that fails validation is
\* never stored, at whatever position of the batch it is, and every file that
\* holds a valid command is stored once its load has run: the store holds
\* exactly the names of the valid files loaded, each from such a file.
C14_FailingFileIsSkipped ==
    /\ \A k \in 1..Len(stored) :
          /\ batch[stored[k].file].kind = "valid"
          /\ batch[stored[k].file].name = stored[k].name
    /\ \A i \in BatchIndex :
          (tasks[i] = "done" /\ batch[i].kind = "valid")
              => \E k \in 1..Len(stored) : stored[k].file = i
    /\ \A name \in CommandNames :
          CommandStoreHas(startStore, name)
              <=> \E i \in BatchIndex :
                     tasks[i] = "done" /\ batch[i].kind = "valid" /\ batch[i].name = name

\* A failing file comes first, a valid file after it, both loads have run and
\* the valid file's command is stored.
C14_Witness ==
    /\ Len(batch) = 2
    /\ batch[1].kind \in {"empty", "invalid"}
    /\ batch[2].kind = "valid"
    /\ tasks[1] = "done"
    /\ tasks[2] = "done"
    /\ CommandStoreHas(startStore, batch[2].name)
    /\ startStore[batch[2].name].file = 2

\* C16: a dispatch uses the handler stored under the command name at the moment
\* of its lookup, the latest store.set for that name before it, and runs to its
\* end on that handler, whatever is stored under the name afterwards.
C16_DispatchKeepsItsHandler ==
    \A d \in Dispatches :
        dispatches[d].isCommand =>
            LET prior == SetsBefore(dispatches[d].name, dispatches[d].at)
            IN /\ dispatches[d].found <=> prior # {}
               /\ dispatches[d].found =>
                     dispatches[d].handler = stored[Latest(prior)].file
               /\ (dispatches[d].found /\ dispatches[d].pc # "running") =>
                     dispatches[d].ranOn = dispatches[d].handler

\* A dispatch was in flight while its name was stored again, finished on the
\* handler it had looked up, and a later dispatch got the new handler.
C16_Witness ==
    \E d1, d2 \in Dispatches, k \in 1..Len(stored) :
        /\ dispatches[d1].found
        /\ dispatches[d1].pc # "running"
        /\ stored[k].name = dispatches[d1].name
        /\ dispatches[d1].at < k
        /\ k <= dispatches[d1].doneAt
        /\ dispatches[d1].ranOn # stored[k].file
        /\ dispatches[d2].name = dispatches[d1].name
        /\ dispatches[d2].at >= k
        /\ dispatches[d2].handler = stored[k].file

\* C17: the listener never rejects. An interaction that is no command runs no
\* handler and logs nothing; a command without a stored handler runs no
\* handler and logs one warning; a handler that fails is logged at error
\* severity and the listener resolves; the listener stays attached.
C17_ListenerNeverFails ==
    /\ \A d \in Dispatches :
          /\ dispatches[d].pc # "rejected"
          /\ ~dispatches[d].isCommand =>
                /\ dispatches[d].executed = 0
                /\ dispatches[d].warns = 0
                /\ dispatches[d].errors = 0
                /\ dispatches[d].pc = "resolved"
          /\ (dispatches[d].isCommand /\ ~dispatches[d].found) =>
                /\ dispatches[d].executed = 0
                /\ dispatches[d].warns = 1
                /\ dispatches[d].errors = 0
                /\ dispatches[d].pc = "resolved"
          /\ dispatches[d].failed =>
                /\ dispatches[d].errors > 0
                /\ dispatches[d].pc = "resolved"
          /\ (dispatches[d].found /\ ~dispatches[d].failed) => dispatches[d].errors = 0
    /\ Len(dispatches) > 0 =>
          listeners["interactionCreate"] = <<[fn |-> InteractionListener, once |-> FALSE]>>

\* A handler failed, and an interaction that arrived after the failure was
\* dispatched to its handler.
C17_Witness ==
    \E d1, d2 \in Dispatches :
        /\ d1 < d2
        /\ dispatches[d1].failed
        /\ dispatches[d1].pc = "resolved"
        /\ dispatches[d2].after >= 1
        /\ dispatches[d2].found
        /\ dispatches[d2].executed = 1

\* C19: once init has attached the listener (and resolved), every valid command
\* file of the directory is in the store.
C19_LoadedBeforeDispatch ==
    Len(listeners["interactionCreate"]) > 0 =>
        \A i \in BatchIndex :
            batch[i].kind = "valid" => CommandStoreHas(startStore, batch[i].name)

\* ------------------------------------------------------------------ frame claims

\* C18: each registry operation changes only its own store. A command loader
\* leaves the event store, the cleanup store and the listener table unchanged;
\* loadEvent and unloadEvent leave the command and cleanup stores unchanged;
\* loadScript and unloadScript leave the command and event stores unchanged;
\* and the listener table changes only in a loadEvent or unloadEvent step, by
\* the on/once/off calls that step made.
C18_Frame ==
    /\ loads' # loads => UNCHANGED <<eventStore, cleanupStore, listeners>>
    /\ trace' # trace => UNCHANGED <<commandStore, cleanupStore>>
    /\ scripts' # scripts => UNCHANGED <<commandStore, eventStore>>
    /\ commandStore' # commandStore => loads' # loads
    /\ eventStore' # eventStore => trace' # trace
    /\ cleanupStore' # cleanupStore => scripts' # scripts
    /\ listeners' # listeners =>
          /\ Len(trace') = Len(trace) + 1
          /\ trace'[Len(trace')].op \in {"loadEvent", "unloadEvent"}
          /\ trace'[Len(trace')].calls # <<>>

C18_OwnStoreOnly == [][C18_Frame]_vars

\* A command loader, loadEvent and loadScript have each acted on the shared
\* stores: every store holds an entry and the client holds a listener.
C18_Witness ==
    /\ Len(loads) > 0
    /\ Len(trace) > 0
    /\ Len(scripts) > 0
    /\ DOMAIN commandStore # {}
    /\ DOMAIN eventStore # {}
    /\ DOMAIN cleanupStore # {}
    /\ \E name \in ListenerNames : Len(listeners[name]) > 0

====
